---------------------------- MODULE Spec2Model ----------------------------
(***************************************************************************)
(* The NYC collisions dashboard (app.py): the table loaded at start-up,    *)
(* the three filter inputs, the "Generate Report" button and the           *)
(* update_charts callback that filters the table and builds eight figures. *)
(*                                                                         *)
(* Text is a sequence of one-character strings.  A missing cell of a text  *)
(* column is NaNStr, a missing number is NaN, a missing timestamp is NaT.  *)
(* Latitudes and longitudes are in units of 1/10000 degree.                *)
(***************************************************************************)
EXTENDS Integers, Sequences, FiniteSets, TLC

VARIABLES csv, df, borough, year, search_term, n_clicks, page_loaded,
          figures, dff, computed, args, remembered

vars == <<csv, df, borough, year, search_term, n_clicks, page_loaded,
          figures, dff, computed, args, remembered>>

-----------------------------------------------------------------------------
(* Bounds of the model *)

\* rows of the input file
MaxRows == 2
\* clicks on the Generate button
MaxClicks == 3

-----------------------------------------------------------------------------
(* Missing values and unset inputs *)

\* float NaN: a number pandas could not read (errors='coerce'), the year of NaT
NaN == -9999999
\* NaN in a text column as read_csv leaves it
NaNStr == <<"NaN">>
\* the missing timestamp
NaT == <<>>
\* the value of a dropdown or of the search box nothing was chosen in
NoneStr == <<"None">>
NoneNum == -1

-----------------------------------------------------------------------------
(* Python text operations *)

UpperLetters == <<"A","B","C","D","E","F","G","H","I","J","K","L","M",
                  "N","O","P","Q","R","S","T","U","V","W","X","Y","Z">>
LowerLetters == <<"a","b","c","d","e","f","g","h","i","j","k","l","m",
                  "n","o","p","q","r","s","t","u","v","w","x","y","z">>
Digits == <<"0","1","2","3","4","5","6","7","8","9">>

LowerChar(c) ==
    IF \E i \in 1..26 : UpperLetters[i] = c
    THEN LowerLetters[CHOOSE i \in 1..26 : UpperLetters[i] = c]
    ELSE c

UpperChar(c) ==
    IF \E i \in 1..26 : LowerLetters[i] = c
    THEN UpperLetters[CHOOSE i \in 1..26 : LowerLetters[i] = c]
    ELSE c

\* str.lower()
str_lower(s) == [i \in 1..Len(s) |-> LowerChar(s[i])]

\* str.upper()
str_upper(s) == [i \in 1..Len(s) |-> UpperChar(s[i])]

\* str.strip()
str_strip(s) ==
    LET keep == {i \in 1..Len(s) : s[i] # " "}
    IN  IF keep = {} THEN <<>>
        ELSE SubSeq(s, CHOOSE i \in keep : \A j \in keep : i <= j,
                       CHOOSE i \in keep : \A j \in keep : i >= j)

\* sub in s
Contains(sub, s) ==
    \E i \in 1..(Len(s) - Len(sub) + 1) : SubSeq(s, i, i + Len(sub) - 1) = sub

\* str(n) of an integer n >= 0
RECURSIVE str_int(_)
str_int(n) ==
    IF n < 10 THEN <<Digits[n + 1]>>
    ELSE Append(str_int(n \div 10), Digits[(n % 10) + 1])

\* the order of characters (space, digits, upper case, lower case)
Ord(c) ==
    IF c = " " THEN 32
    ELSE IF \E i \in 1..10 : Digits[i] = c
         THEN 47 + (CHOOSE i \in 1..10 : Digits[i] = c)
    ELSE IF \E i \in 1..26 : UpperLetters[i] = c
         THEN 64 + (CHOOSE i \in 1..26 : UpperLetters[i] = c)
    ELSE IF \E i \in 1..26 : LowerLetters[i] = c
         THEN 96 + (CHOOSE i \in 1..26 : LowerLetters[i] = c)
    ELSE 127

\* s < t for text
RECURSIVE str_less(_, _)
str_less(s, t) ==
    IF t = <<>> THEN FALSE
    ELSE IF s = <<>> THEN TRUE
    ELSE IF Head(s) = Head(t) THEN str_less(Tail(s), Tail(t))
    ELSE Ord(Head(s)) < Ord(Head(t))

-----------------------------------------------------------------------------
(* pandas column operations *)

\* Series.dropna().unique() of a text column: distinct values, first seen first
RECURSIVE unique_str(_)
unique_str(col) ==
    IF col = <<>> THEN <<>>
    ELSE LET init == unique_str(SubSeq(col, 1, Len(col) - 1))
             x == col[Len(col)]
         IN  IF x = NaNStr \/ \E i \in 1..Len(init) : init[i] = x
             THEN init ELSE Append(init, x)

\* Series.dropna().unique() of a numeric column
RECURSIVE unique_num(_)
unique_num(col) ==
    IF col = <<>> THEN <<>>
    ELSE LET init == unique_num(SubSeq(col, 1, Len(col) - 1))
             x == col[Len(col)]
         IN  IF x = NaN \/ \E i \in 1..Len(init) : init[i] = x
             THEN init ELSE Append(init, x)

\* sorted() of a list of text
RECURSIVE sorted_str(_)
sorted_str(xs) ==
    IF xs = <<>> THEN <<>>
    ELSE LET m == CHOOSE i \in 1..Len(xs) :
                    \A j \in 1..Len(xs) : ~str_less(xs[j], xs[i])
         IN  <<xs[m]>> \o sorted_str(SubSeq(xs, 1, m - 1) \o SubSeq(xs, m + 1, Len(xs)))

\* sorted() of a list of numbers
RECURSIVE sorted_num(_)
sorted_num(xs) ==
    IF xs = <<>> THEN <<>>
    ELSE LET m == CHOOSE i \in 1..Len(xs) : \A j \in 1..Len(xs) : xs[i] <= xs[j]
         IN  <<xs[m]>> \o sorted_num(SubSeq(xs, 1, m - 1) \o SubSeq(xs, m + 1, Len(xs)))

\* Series.sum(): NaN is skipped
RECURSIVE col_sum(_)
col_sum(col) ==
    IF col = <<>> THEN 0
    ELSE (IF Head(col) = NaN THEN 0 ELSE Head(col)) + col_sum(Tail(col))

\* one column of a frame
Column(frame, name) == [i \in 1..Len(frame) |-> frame[i][name]]

-----------------------------------------------------------------------------
(* Load and prepare data *)

\* pd.to_datetime(..., errors='coerce'): a cell <<year, month, day>>;
\* anything that is not a date becomes NaT
to_datetime(cell) ==
    IF Len(cell) = 3 /\ cell[2] \in 1..12 /\ cell[3] \in 1..31 THEN cell ELSE NaT

\* .dt.year
dt_year(ts) == IF ts = NaT THEN NaN ELSE ts[1]

\* .astype(str): the missing cell becomes the text "nan" (pandas before 3.0,
\* where astype(str) does not keep missing values)
astype_str(cell) == IF cell = NaNStr THEN <<"n","a","n">> ELSE cell

\* .astype(str).str.strip().str.upper()
NormalizeBorough(cell) == str_upper(str_strip(astype_str(cell)))

\* pd.to_numeric(..., errors='coerce') of a cell <<"num", v>>, <<"text">> or <<"nan">>
to_numeric(cell) == IF cell[1] = "num" THEN cell[2] ELSE NaN

\* the module-level preparation of df
LoadRow(i, raw) ==
    [idx |-> i,
     crash_date_crash |-> to_datetime(raw.crash_date_crash),
     year |-> dt_year(to_datetime(raw.crash_date_crash)),
     borough |-> NormalizeBorough(raw.borough),
     latitude |-> to_numeric(raw.latitude),
     longitude |-> to_numeric(raw.longitude),
     vehicle_type_code1 |-> raw.vehicle_type_code1,
     contributing_factor_vehicle_1 |-> raw.contributing_factor_vehicle_1,
     number_of_persons_injured |-> raw.number_of_persons_injured,
     number_of_persons_killed |-> raw.number_of_persons_killed]

Load(file) == [i \in 1..Len(file) |-> LoadRow(i, file[i])]

\* options of the borough dropdown
BoroughOptions(store) == sorted_str(unique_str(Column(store, "borough")))

\* options of the year dropdown
YearOptions(store) == sorted_num(unique_num(Column(store, "year")))

-----------------------------------------------------------------------------
(* update_charts: search logic and dropdowns *)

\* the truth value Python gives a text input: None and "" are false
TruthyStr(s) == s # NoneStr /\ s # <<>>

\* the truth value Python gives a number input: None and 0 are false
TruthyNum(n) == n # NoneNum /\ n # 0

\* the text "pedestrian"
Pedestrian == <<"p","e","d","e","s","t","r","i","a","n">>

\* for b in ...: if b.lower() in term: dff = dff[dff['borough'].str.lower() == b.lower()]
RECURSIVE SearchBoroughs(_, _, _)
SearchBoroughs(frame, bs, term) ==
    IF bs = <<>> THEN frame
    ELSE LET b == Head(bs)
             kept == IF Contains(str_lower(b), term)
                     THEN SelectSeq(frame, LAMBDA r : str_lower(r.borough) = str_lower(b))
                     ELSE frame
         IN  SearchBoroughs(kept, Tail(bs), term)

\* for y in ...: if str(int(y)) in term: dff = dff[dff['year'] == y]
RECURSIVE SearchYears(_, _, _)
SearchYears(frame, ys, term) ==
    IF ys = <<>> THEN frame
    ELSE LET y == Head(ys)
             kept == IF Contains(str_int(y), term)
                     THEN SelectSeq(frame, LAMBDA r : r.year # NaN /\ r.year = y)
                     ELSE frame
         IN  SearchYears(kept, Tail(ys), term)

\* .str.contains('pedestrian', case=False, na=False)
FactorMatches(cell) == cell # NaNStr /\ Contains(Pedestrian, str_lower(cell))

\* the search logic with the loops running over the values of the working set
SearchLogic_OverWorkingSet(store, s) ==
    IF ~TruthyStr(s) THEN store
    ELSE LET term == str_lower(s)
             byBorough == SearchBoroughs(store, unique_str(Column(store, "borough")), term)
             byYear == SearchYears(byBorough, unique_num(Column(byBorough, "year")), term)
         IN  IF Contains(Pedestrian, term)
             THEN SelectSeq(byYear, LAMBDA r : FactorMatches(r.contributing_factor_vehicle_1))
             ELSE byYear

\* the search logic that keeps a row when its factor does not say "pedestrian"
SearchLogic_NoFactor(store, s) ==
    IF ~TruthyStr(s) THEN store
    ELSE LET term == str_lower(s)
             byBorough == SearchBoroughs(store, unique_str(Column(store, "borough")), term)
         IN  SearchYears(byBorough, unique_num(Column(store, "year")), term)

\* SEARCH LOGIC: every row has the contributing_factor_vehicle_1 column
SearchLogic(store, s) ==
    IF ~TruthyStr(s) THEN store
    ELSE LET term == str_lower(s)
             byBorough == SearchBoroughs(store, unique_str(Column(store, "borough")), term)
             byYear == SearchYears(byBorough, unique_num(Column(store, "year")), term)
         IN  IF Contains(Pedestrian, term)
             THEN SelectSeq(byYear, LAMBDA r : FactorMatches(r.contributing_factor_vehicle_1))
             ELSE byYear

\* DROPDOWNS
Dropdowns(frame, b, y) ==
    LET byBorough == IF TruthyStr(b)
                     THEN SelectSeq(frame, LAMBDA r : r.borough = str_upper(b))
                     ELSE frame
    IN  IF TruthyNum(y)
        THEN SelectSeq(byBorough, LAMBDA r : r.year # NaN /\ r.year = y)
        ELSE byBorough

\* the FilteredView of update_charts
Filter(store, b, y, s) == Dropdowns(SearchLogic(store, s), b, y)

-----------------------------------------------------------------------------
(* update_charts: the eight figures *)

\* nlargest(10)
TopN == 10
\* nbins=20
NBins == 20
\* lat=[40.7128], lon=[-74.0060] of the map without location data
FallbackLat == 407128
FallbackLon == -740060

Unknown == <<"U","N","K","N","O","W","N">>

\* the names of the eight outputs, in the order of the callback's Output list
Charts == <<"bar", "pie", "map", "line", "heatmap", "hist", "scatter", "sunburst">>

\* px.scatter(title="No data available for the selected filters.")
empty == [kind |-> "scatter", title |-> "No data available for the selected filters.",
          data |-> <<>>]

\* sort_values(ascending=False) of <<value, count>> pairs, first seen first among equals
RECURSIVE by_count(_)
by_count(pairs) ==
    IF pairs = <<>> THEN <<>>
    ELSE LET m == CHOOSE i \in 1..Len(pairs) :
                    /\ \A j \in 1..Len(pairs) : pairs[j][2] <= pairs[i][2]
                    /\ \A j \in 1..(i - 1) : pairs[j][2] < pairs[i][2]
         IN  <<pairs[m]>> \o by_count(SubSeq(pairs, 1, m - 1) \o SubSeq(pairs, m + 1, Len(pairs)))

\* Series.value_counts(): NaN is not counted
value_counts(col) ==
    LET vals == unique_str(col)
    IN  by_count([i \in 1..Len(vals) |->
                    <<vals[i], Cardinality({k \in 1..Len(col) : col[k] = vals[i]})>>])

\* Series.nlargest(n)
nlargest(pairs, n) == SubSeq(pairs, 1, IF Len(pairs) < n THEN Len(pairs) ELSE n)

\* 1. BAR CHART
BarChart(view) ==
    [kind |-> "bar", title |-> "Top 10 Vehicle Types",
     data |-> nlargest(value_counts(Column(view, "vehicle_type_code1")), TopN)]

\* 2. PIE CHART
PieChart(view) ==
    [kind |-> "pie", title |-> "Injuries vs Fatalities",
     data |-> <<[name |-> "Injured", value |-> col_sum(Column(view, "number_of_persons_injured"))],
                [name |-> "Killed", value |-> col_sum(Column(view, "number_of_persons_killed"))]>>]

\* dff.dropna(subset=['latitude', 'longitude'])
MapData(view) == SelectSeq(view, LAMBDA r : r.latitude # NaN /\ r.longitude # NaN)

\* 3. MAP
MapChart(view) ==
    LET map_data == MapData(view)
    IN  IF map_data = <<>>
        THEN [kind |-> "scatter_mapbox",
              title |-> "No location data available for this selection.", zoom |-> 9,
              data |-> <<[idx |-> 0, lat |-> FallbackLat, lon |-> FallbackLon,
                          color |-> <<>>]>>]
        ELSE [kind |-> "scatter_mapbox", title |-> "Crash Locations", zoom |-> 10,
              data |-> [i \in 1..Len(map_data) |->
                          [idx |-> map_data[i].idx, lat |-> map_data[i].latitude,
                           lon |-> map_data[i].longitude, color |-> map_data[i].borough]]]

\* 4. LINE CHART: groupby('year').size(), rows without a year in no group
LineChart(view) ==
    LET ys == sorted_num(unique_num(Column(view, "year")))
    IN  [kind |-> "line", title |-> "Crashes Over the Years",
         data |-> [i \in 1..Len(ys) |->
                     [year |-> ys[i],
                      num |-> Len(SelectSeq(view, LAMBDA r : r.year = ys[i]))]]]

\* the rows pivot_table groups: those with a borough and a year
PivotRows(view) == SelectSeq(view, LAMBDA r : r.borough # NaNStr /\ r.year # NaN)

\* the cells of the borough x year grid, row by row
PivotCells(rows, bs, ys) ==
    [k \in 1..(Len(bs) * Len(ys)) |->
        LET b == bs[((k - 1) \div Len(ys)) + 1]
            y == ys[((k - 1) % Len(ys)) + 1]
        IN  [borough |-> b, year |-> y,
             value |-> col_sum(Column(SelectSeq(rows, LAMBDA r : r.borough = b /\ r.year = y),
                                      "number_of_persons_injured"))]]

\* 5. HEATMAP: pivot_table(values=injured, index=borough, columns=year, sum, fill 0)
HeatmapChart(view) ==
    LET rows == PivotRows(view)
    IN  [kind |-> "imshow", title |-> "Injuries Heatmap (Borough x Year)",
         data |-> PivotCells(rows, sorted_str(unique_str(Column(rows, "borough"))),
                             sorted_num(unique_num(Column(rows, "year"))))]

\* 6. HISTOGRAM: one x per row of the view, binned by the renderer
HistChart(view) ==
    [kind |-> "histogram", title |-> "Distribution of Injuries Per Crash", nbins |-> NBins,
     data |-> [i \in 1..Len(view) |->
                 [idx |-> view[i].idx, x |-> view[i].number_of_persons_injured]]]

\* 7. SCATTER: one point per row of the view
ScatterChart(view) ==
    [kind |-> "scatter", title |-> "Scatter: Injuries vs Fatalities",
     data |-> [i \in 1..Len(view) |->
                 [idx |-> view[i].idx, x |-> view[i].number_of_persons_injured,
                  y |-> view[i].number_of_persons_killed, color |-> view[i].borough]]]

\* sunburst_df = dff.copy() with vehicle_type_code1.fillna('UNKNOWN')
SunburstFrame(view) ==
    [i \in 1..Len(view) |->
        [view[i] EXCEPT !.vehicle_type_code1 =
            IF @ = NaNStr THEN Unknown ELSE @]]

\* groupby(['borough', 'vehicle_type_code1'], as_index=False)[injured].sum()
SunburstGroups(frame) ==
    LET bs == sorted_str(unique_str(Column(frame, "borough")))
        vs == sorted_str(unique_str(Column(frame, "vehicle_type_code1")))
        all == [k \in 1..(Len(bs) * Len(vs)) |->
                  LET b == bs[((k - 1) \div Len(vs)) + 1]
                      v == vs[((k - 1) % Len(vs)) + 1]
                      rows == SelectSeq(frame, LAMBDA r : r.borough = b /\ r.vehicle_type_code1 = v)
                  IN  [borough |-> b, vehicle_type_code1 |-> v, rows |-> Len(rows),
                       number_of_persons_injured |->
                           col_sum(Column(rows, "number_of_persons_injured"))]]
    IN  SelectSeq(all, LAMBDA g : g.rows > 0)

\* 8. SUNBURST: .replace(0, 1) on the sums
SunburstChart(view) ==
    LET sb_group == SunburstGroups(SunburstFrame(view))
    IN  [kind |-> "sunburst", title |-> "Sunburst: Borough -> Vehicle Type -> Injuries",
         data |-> [i \in 1..Len(sb_group) |->
                     [borough |-> sb_group[i].borough,
                      vehicle_type_code1 |-> sb_group[i].vehicle_type_code1,
                      number_of_persons_injured |->
                          IF sb_group[i].number_of_persons_injured = 0 THEN 1
                          ELSE sb_group[i].number_of_persons_injured]]]

-----------------------------------------------------------------------------
(* update_charts: the callback *)

\* the store with the sunburst's fillna written through to its rows
StoreAfter_NoCopy(store, view) ==
    IF view = <<>> THEN store
    ELSE [i \in 1..Len(store) |->
            IF \E k \in 1..Len(view) : view[k].idx = i
            THEN [store[i] EXCEPT !.vehicle_type_code1 = IF @ = NaNStr THEN Unknown ELSE @]
            ELSE store[i]]

\* df after a call: the callback filters df.copy() and fills sunburst_df = dff.copy()
StoreAfter(store, view) == store

\* the eight figures of a view that has rows
Figures(view) ==
    <<BarChart(view), PieChart(view), MapChart(view), LineChart(view),
      HeatmapChart(view), HistChart(view), ScatterChart(view), SunburstChart(view)>>

\* the callback without the test of n_clicks
update_charts_NoGuard(n, b, y, s) ==
    LET view == Filter(df, b, y, s)
    IN  IF view = <<>>
        THEN [update |-> TRUE, dff |-> view, computed |-> {},
              figures |-> <<empty, empty, empty, empty, empty, empty, empty, empty>>]
        ELSE [update |-> TRUE, dff |-> view,
              computed |-> {Charts[i] : i \in 1..8},
              figures |-> Figures(view)]

\* the callback without the EMPTY DATA CHECK
update_charts_NoEmptyCheck(n, b, y, s) ==
    LET view == Filter(df, b, y, s)
    IN  IF n = 0
        THEN [update |-> FALSE, dff |-> dff, computed |-> computed, figures |-> figures]
        ELSE [update |-> TRUE, dff |-> view,
              computed |-> {Charts[i] : i \in 1..8},
              figures |-> Figures(view)]

\* update_charts(n_clicks, borough, year, search_term); update is FALSE on PreventUpdate
update_charts(n, b, y, s) ==
    LET view == Filter(df, b, y, s)
    IN  IF n = 0
        THEN [update |-> FALSE, dff |-> dff, computed |-> computed, figures |-> figures]
        ELSE IF view = <<>>
        THEN [update |-> TRUE, dff |-> view, computed |-> {},
              figures |-> <<empty, empty, empty, empty, empty, empty, empty, empty>>]
        ELSE [update |-> TRUE, dff |-> view,
              computed |-> {Charts[i] : i \in 1..8},
              figures |-> Figures(view)]

-----------------------------------------------------------------------------
(* Input files, filter inputs *)

Bronx == <<"B","r","o","n","x">>
QueensPadded == <<" ","q","u","e","e","n","s"," ">>
Blank == <<" "," ">>
Sedan == <<"S","e","d","a","n">>
Taxi == <<"T","a","x","i">>
PedestrianError == <<"P","e","d","e","s","t","r","i","a","n"," ","e","r","r","o","r">>
FollowingTooClosely == <<"F","o","l","l","o","w","i","n","g"," ","t","o","o"," ","c","l","o","s","e","l","y">>

RawRow(d, b, lat, lon, v, f, i, k) ==
    [crash_date_crash |-> d, borough |-> b, latitude |-> lat, longitude |-> lon,
     vehicle_type_code1 |-> v, contributing_factor_vehicle_1 |-> f,
     number_of_persons_injured |-> i, number_of_persons_killed |-> k]

\* rows an input file can hold
BronxPedestrian ==
    RawRow(<<2020, 1, 15>>, Bronx, <<"num", 408500>>, <<"num", -738700>>,
           Sedan, PedestrianError, 2, 0)
BronxNoLongitude ==
    RawRow(<<2020, 3, 2>>, Bronx, <<"num", 408600>>, <<"nan">>,
           Taxi, FollowingTooClosely, 1, 1)
QueensNoFactor ==
    RawRow(<<2021, 6, 30>>, QueensPadded, <<"num", 407300>>, <<"num", -737900>>,
           Sedan, NaNStr, 0, 0)
NoBoroughNoVehicle ==
    RawRow(<<2020, 7, 4>>, NaNStr, <<"text">>, <<"num", -739000>>,
           NaNStr, PedestrianError, 3, 0)
BronxBadDate ==
    RawRow(<<2020, 13, 1>>, Bronx, <<"num", 408400>>, <<"num", -738800>>,
           Sedan, FollowingTooClosely, 1, 0)
BlankNoNumbers ==
    RawRow(<<>>, Blank, <<"nan">>, <<"nan">>, Taxi, NaNStr, NaN, NaN)

Rows == {BronxPedestrian, BronxNoLongitude, QueensNoFactor, NoBoroughNoVehicle,
         BronxBadDate, BlankNoNumbers}

\* rows of the input files of the interactive session
SessionRows == {BronxPedestrian, NoBoroughNoVehicle}

\* the input files with at most MaxRows rows of a set of rows
Files(rows) == UNION {[1..n -> rows] : n \in 0..MaxRows}

\* search texts
SearchTerms ==
    { NoneStr, <<>>,
      <<"B","R","O","N","X"," ","2","0","2","0"," ","P","e","d","e","s","t","r","i","a","n">>,
      <<"b","r","o","n","x">>,
      <<"b","r","o","n","x"," ","q","u","e","e","n","s">>,
      <<"2","0","2","0"," ","2","0","2","1">>,
      <<"b","r","o","n","x"," ","2","0","2","0"," ","2","0","2","1">>,
      <<"P","E","D","E","S","T","R","I","A","N">>,
      <<"n","a","n">>,
      <<"q","u","e","e","n","s"," ","2","0","2","1">> }

\* search texts of the interactive session
SessionTerms == {NoneStr, <<"B","R","O","N","X"," ","2","0","2","0"," ","P","e","d","e","s","t","r","i","a","n">>}

\* values of the borough input of a call: a dropdown option, nothing, or text typed in lower case
BoroughInputs(store) ==
    {NoneStr} \cup {BoroughOptions(store)[i] : i \in 1..Len(BoroughOptions(store))}
              \cup {str_lower(Bronx)}

\* values of the year input of a call: a dropdown option, nothing, 0, or a year of no row
YearInputs(store) ==
    {NoneNum, 0, 2099} \cup {YearOptions(store)[i] : i \in 1..Len(YearOptions(store))}

-----------------------------------------------------------------------------
(* The dashboard *)

NoArgs == [n_clicks |-> 0, borough |-> NoneStr, year |-> NoneNum, search_term |-> NoneStr]

\* the page after the module has run: df is prepared, nothing is chosen, no figure is drawn
InitPage(file) ==
    /\ csv = file
    /\ df = Load(file)
    /\ n_clicks = 0
    /\ figures = <<>>
    /\ dff = <<>>
    /\ computed = {}
    /\ args = NoArgs
    /\ remembered = <<>>

Init ==
    /\ \E file \in Files(SessionRows) : InitPage(file)
    /\ page_loaded = FALSE
    /\ borough = NoneStr
    /\ year = NoneNum
    /\ search_term = NoneStr

\* a call of the callback with the button's n_clicks and the three State values
Call(n) ==
    LET r == update_charts(n, borough, year, search_term)
    IN  /\ args' = [n_clicks |-> n, borough |-> borough, year |-> year,
                    search_term |-> search_term]
        /\ figures' = r.figures
        /\ dff' = r.dff
        /\ computed' = r.computed
        /\ df' = IF r.update THEN StoreAfter(df, r.dff) ELSE df

\* Dash calls the callback once when the page loads, with n_clicks=0
InitialCall ==
    /\ ~page_loaded
    /\ page_loaded' = TRUE
    /\ Call(n_clicks)
    /\ UNCHANGED <<csv, borough, year, search_term, n_clicks, remembered>>

\* the user chooses in the borough dropdown, or clears it
SelectBorough ==
    /\ page_loaded
    /\ \E b \in {NoneStr} \cup {BoroughOptions(df)[i] : i \in 1..Len(BoroughOptions(df))} :
          /\ b # borough
          /\ borough' = b
    /\ UNCHANGED <<csv, df, year, search_term, n_clicks, page_loaded, figures, dff,
                   computed, args, remembered>>

\* the user chooses in the year dropdown, or clears it
SelectYear ==
    /\ page_loaded
    /\ \E y \in {NoneNum} \cup {YearOptions(df)[i] : i \in 1..Len(YearOptions(df))} :
          /\ y # year
          /\ year' = y
    /\ UNCHANGED <<csv, df, borough, search_term, n_clicks, page_loaded, figures, dff,
                   computed, args, remembered>>

\* the user edits the search box
TypeSearch ==
    /\ page_loaded
    /\ \E t \in SessionTerms :
          /\ t # search_term
          /\ search_term' = t
    /\ UNCHANGED <<csv, df, borough, year, n_clicks, page_loaded, figures, dff,
                   computed, args, remembered>>

\* the user clicks "Generate Report"
ClickGenerate ==
    /\ page_loaded
    /\ n_clicks < MaxClicks
    /\ n_clicks' = n_clicks + 1
    /\ Call(n_clicks + 1)
    /\ UNCHANGED <<csv, borough, year, search_term, page_loaded, remembered>>

\* an observer notes the query just answered, to compare it with a later one
Remember ==
    /\ remembered = <<>>
    /\ args.n_clicks > 0
    /\ n_clicks < MaxClicks
    /\ remembered' = <<[args |-> args, dff |-> dff]>>
    /\ UNCHANGED <<csv, df, borough, year, search_term, n_clicks, page_loaded, figures,
                   dff, computed, args>>

Next ==
    \/ InitialCall
    \/ SelectBorough
    \/ SelectYear
    \/ TypeSearch
    \/ ClickGenerate
    \/ Remember

Spec == Init /\ [][Next]_vars

\* one query on any input file with any filter inputs
QueryInit ==
    /\ \E file \in Files(Rows) : InitPage(file)
    /\ page_loaded = TRUE
    /\ borough \in BoroughInputs(df)
    /\ year \in YearInputs(df)
    /\ search_term \in SearchTerms

Query == n_clicks = 0 /\ ClickGenerate

QueryNext == Query

QuerySpec == QueryInit /\ [][QueryNext]_vars

-----------------------------------------------------------------------------
(* Properties *)

\* a query has been answered
Queried == args.n_clicks > 0

\* the rows of a frame, as the set of their index labels
Idx(frame) == {frame[k].idx : k \in 1..Len(frame)}

\* the distinct values of a column of the store
BoroughsOf(store) == {store[i].borough : i \in 1..Len(store)}
YearsOf(store) == {store[i].year : i \in 1..Len(store)} \ {NaN}

\* the injured of the rows of the store with index labels S, a missing count as 0
RECURSIVE Injured(_)
Injured(S) ==
    IF S = {} THEN 0
    ELSE LET i == CHOOSE j \in S : TRUE
         IN  (IF df[i].number_of_persons_injured = NaN THEN 0
              ELSE df[i].number_of_persons_injured) + Injured(S \ {i})

RECURSIVE Killed(_)
Killed(S) ==
    IF S = {} THEN 0
    ELSE LET i == CHOOSE j \in S : TRUE
         IN  (IF df[i].number_of_persons_killed = NaN THEN 0
              ELSE df[i].number_of_persons_killed) + Killed(S \ {i})

\* C1: a query with the borough input set to a value of the borough dropdown
\* returns only rows whose normalized borough is that value in upper case.
C1_BoroughFilter ==
    (Queried /\ args.borough \in BoroughsOf(df))
        => \A k \in 1..Len(dff) : dff[k].borough = str_upper(args.borough)

\* C2: a query with the year input set to an integer returns only rows of
\* that year, and no row without a year.
C2_YearFilter ==
    (Queried /\ args.year # NoneNum)
        => \A k \in 1..Len(dff) : dff[k].year # NaN /\ dff[k].year = args.year

\* C3: an empty view gives the one placeholder in all eight outputs and
\* computes no summary; a view with rows gives no placeholder.
C3_EmptyPlaceholder ==
    Queried =>
        /\ Len(figures) = 8
        /\ dff = <<>> => (computed = {} /\ \A i \in 1..8 : figures[i] = empty)
        /\ dff # <<>> => \A i \in 1..8 : figures[i] # empty

C3_Witness ==
    /\ Queried
    /\ df # <<>>
    /\ TruthyNum(args.year)
    /\ args.year \notin YearsOf(df)
    /\ args.borough = NoneStr
    /\ args.search_term = NoneStr
    /\ dff = <<>>
    /\ \A i \in 1..8 : figures[i] = empty

\* C4: nothing is drawn before the first click; a change of a filter input
\* draws nothing; the figures are replaced only by a click, from the inputs
\* as they are at that click.
C4_OnlyOnTrigger ==
    /\ [](n_clicks = 0 => figures = <<>>)
    /\ [][(borough' # borough \/ year' # year \/ search_term' # search_term)
            => (figures' = figures /\ args' = args)]_vars
    /\ [][(figures' # figures \/ args' # args)
            => /\ n_clicks' = n_clicks + 1
               /\ args' = [n_clicks |-> n_clicks', borough |-> borough, year |-> year,
                           search_term |-> search_term]
               /\ Idx(dff') = Idx(Dropdowns(SearchLogic(df, search_term), borough, year))
               /\ Len(figures') = 8]_vars

C4_Witness ==
    /\ Queried
    /\ Len(figures) = 8
    /\ args.n_clicks = n_clicks
    /\ borough # args.borough
    /\ year # args.year
    /\ search_term # args.search_term

\* C5: the store stays as loaded, and a FilterSpec asked again gives the
\* view it gave before.
C5_PureFilter ==
    /\ df = Load(csv)
    /\ (remembered # <<>> /\ remembered[1].args.borough = args.borough
                          /\ remembered[1].args.year = args.year
                          /\ remembered[1].args.search_term = args.search_term)
          => remembered[1].dff = dff

C5_Witness ==
    /\ remembered # <<>>
    /\ remembered[1].args.n_clicks + 2 <= args.n_clicks
    /\ remembered[1].args.borough = args.borough
    /\ remembered[1].args.year = args.year
    /\ remembered[1].args.search_term = args.search_term
    /\ dff # <<>>
    /\ \E k \in 1..Len(dff) : dff[k].vehicle_type_code1 = NaNStr

\* C6: the cells of the heatmap grid add up to the injured of the view.
C6_HeatmapTotal ==
    (Queried /\ dff # <<>>)
        => col_sum(Column(figures[5].data, "value")) = Injured(Idx(dff))

\* the rows whose borough cell is empty in the input file
MissingBorough == {i \in 1..Len(csv) : csv[i].borough = NaNStr}

BoroughRestricted ==
    \/ TruthyStr(args.borough) /\ args.borough \in BoroughsOf(df)
    \/ /\ TruthyStr(args.search_term)
       /\ \E b \in BoroughsOf(df) : Contains(str_lower(b), str_lower(args.search_term))

\* C7: no value of the borough dropdown and no search text selects exactly
\* the rows whose borough is missing in the input file.
C7_MissingBoroughNotSelectable ==
    (Queried /\ MissingBorough # {} /\ BoroughRestricted) => Idx(dff) # MissingBorough


Located(frame) ==
    {frame[k].idx : k \in {j \in 1..Len(frame) :
                             frame[j].latitude # NaN /\ frame[j].longitude # NaN}}

SunburstKey(row) ==
    <<row.borough, IF row.vehicle_type_code1 = NaNStr THEN Unknown ELSE row.vehicle_type_code1>>

\* C8: the map shows exactly the rows of the view with both coordinates, or
\* the one fallback point when there is none, and the other seven figures are
\* then drawn as usual; a row without a coordinate is a bar of the
\* histogram's data and a point of the scatter, adds to both sums of the
\* pie, is counted in the line chart under its year, and is in its group of
\* the sunburst.
C8_MissingCoordinates ==
    (Queried /\ dff # <<>>) =>
        /\ computed = {Charts[i] : i \in 1..8}
        /\ \A i \in 1..8 : figures[i] # empty
        /\ IF Located(dff) = {}
           THEN /\ Len(figures[3].data) = 1
                /\ figures[3].data[1].lat = FallbackLat
                /\ figures[3].data[1].lon = FallbackLon
           ELSE /\ Idx(figures[3].data) = Located(dff)
                /\ Len(figures[3].data) = Cardinality(Located(dff))
        /\ \A i \in {1, 2, 4, 5, 6, 7, 8} :
              figures[i].title # "No location data available for this selection."
        /\ \A v \in {dff[k].vehicle_type_code1 : k \in 1..Len(dff)} \ {NaNStr} :
              \E j \in 1..Len(figures[1].data) :
                 figures[1].data[j] =
                    <<v, Cardinality({k \in 1..Len(dff) : dff[k].vehicle_type_code1 = v})>>
        /\ figures[2].data[1].value = Injured(Idx(dff))
        /\ figures[2].data[2].value = Killed(Idx(dff))
        /\ \A k \in {n \in 1..Len(dff) : dff[n].latitude = NaN \/ dff[n].longitude = NaN} :
              \E j \in 1..Len(figures[4].data) :
                 /\ figures[4].data[j].year = dff[k].year
                 /\ figures[4].data[j].num
                      = Cardinality({m \in 1..Len(dff) : dff[m].year = dff[k].year})
        /\ Idx(figures[6].data) = Idx(dff)
        /\ Len(figures[6].data) = Len(dff)
        /\ Idx(figures[7].data) = Idx(dff)
        /\ Len(figures[7].data) = Len(dff)
        /\ \A k \in 1..Len(dff) :
              \E j \in 1..Len(figures[8].data) :
                 LET sum == Injured({dff[m].idx : m \in {n \in 1..Len(dff) :
                                        SunburstKey(dff[n]) = SunburstKey(dff[k])}})
                 IN  /\ <<figures[8].data[j].borough, figures[8].data[j].vehicle_type_code1>>
                          = SunburstKey(dff[k])
                     /\ figures[8].data[j].number_of_persons_injured
                          = IF sum = 0 THEN 1 ELSE sum

TermBoroughs == {b \in BoroughsOf(df) : Contains(str_lower(b), str_lower(args.search_term))}

TermYears == {y \in YearsOf(df) : Contains(str_int(y), str_lower(args.search_term))}

C10_SearchIntersection ==
    (Queried /\ TruthyStr(args.search_term)) =>
        /\ Cardinality(TermBoroughs) >= 2 => dff = <<>>
        /\ Cardinality(TermYears) >= 2 => dff = <<>>
        /\ (TermBoroughs # {} /\ dff # <<>>) =>
              /\ Cardinality(TermBoroughs) = 1
              /\ \A k \in 1..Len(dff) : dff[k].borough \in TermBoroughs
        /\ (TermYears # {} /\ dff # <<>>) =>
              /\ Cardinality(TermYears) = 1
              /\ \A k \in 1..Len(dff) : dff[k].year \in TermYears

C10_Witness ==
    /\ Queried
    /\ TruthyStr(args.search_term)
    /\ args.borough = NoneStr
    /\ args.year = NoneNum
    /\ Cardinality(TermBoroughs) >= 2
    /\ \A b \in TermBoroughs : b # <<>>
    /\ dff = <<>>

=============================================================================
